---- MODULE Spec2Model ----
(***************************************************************************)
(* A model of samples/gen_expr.py: the script reads one integer argument,  *)
(* writes the line "print", builds a random expression tree with           *)
(* rand_expr and writes it with print_expr.                                *)
(*                                                                         *)
(* Python values are records tagged with their type: an int carries its   *)
(* integer, a float the shortest decimal digits and the decimal point      *)
(* position that repr() works from, a list the sequence of its items.      *)
(* Text (argv strings, standard output) is a sequence of one-character     *)
(* strings.                                                                *)
(***************************************************************************)
EXTENDS Integers, Sequences, FiniteSets, TLC

VARIABLES
    argv,       \* sys.argv: the script name, then the arguments
    pc,         \* the module-level statement the run is at
    max_rec,    \* the module-level max_rec (line 56)
    calls,      \* the stack of active rand_expr calls, innermost last
    ret,        \* the most recent return of a rand_expr call: the call and
                \* the value it returned
    expr,       \* the argument print_expr is called with
    indent,     \* print_expr's indent argument
    newline,    \* print_expr's newline argument
    stdout,     \* the characters written to standard output so far
    err         \* the exception that ended the run, "" while there is none

vars == <<argv, pc, max_rec, calls, ret, expr, indent, newline, stdout, err>>

-----------------------------------------------------------------------------
(* Bounds of the model.                                                    *)

\* The largest integer argument a modelled run is given.
MaxArg == 2

\* A randint range of at most this many values beyond its lower end is drawn
\* in full; of a wider range only the two ends are drawn.
MaxSpan == 3

\* The largest tree (in nodes) print_expr is applied to on its own.
MaxNodes == 5

\* The largest indent print_expr is called with on its own.
MaxIndent == 2

-----------------------------------------------------------------------------
(* Python values.                                                          *)

None == [type |-> "NoneType"]

PyInt(n) == [type |-> "int", int |-> n]

\* A float whose shortest repr digits are ds, with the decimal point decpt
\* places right of the first digit's left edge: 0.25 is <<2,5>> at 0,
\* 0.0001 is <<1>> at -3, 1e-05 is <<1>> at -4.
PyFloat(ds, dp) == [type |-> "float", digits |-> ds, decpt |-> dp]

PyStr(s) == [type |-> "str", str |-> s]

PyList(items) == [type |-> "list", items |-> items]

IsNumber(v) == v.type = "int" \/ v.type = "float"

RECURSIVE Repeat(_, _)
\* Python's c * n for a one-character string c (empty when n <= 0).
Repeat(c, n) == IF n <= 0 THEN <<>> ELSE <<c>> \o Repeat(c, n - 1)

DigitChar(d) == <<"0", "1", "2", "3", "4", "5", "6", "7", "8", "9">>[d + 1]

RECURSIVE NatChars(_)
NatChars(n) == IF n < 10 THEN <<DigitChar(n)>>
               ELSE NatChars(n \div 10) \o <<DigitChar(n % 10)>>

\* str() of an int: a minus sign when negative, then the decimal digits.
StrInt(n) == IF n < 0 THEN <<"-">> \o NatChars(-n) ELSE NatChars(n)

DigitsChars(ds) == [i \in 1..Len(ds) |-> DigitChar(ds[i])]

\* str() of a float (repr): exponent notation when decpt <= -4 or decpt > 16,
\* otherwise positional notation with at least one digit after the point.
StrFloat(f) ==
    LET ds == f.digits
        dp == f.decpt
        n  == Len(ds)
        e  == dp - 1
        ea == IF e < 0 THEN -e ELSE e
    IN  IF dp <= -4 \/ dp > 16
        THEN <<DigitChar(ds[1])>>
             \o (IF n > 1 THEN <<".">> \o DigitsChars(SubSeq(ds, 2, n)) ELSE <<>>)
             \o <<"e", IF e < 0 THEN "-" ELSE "+">>
             \o (IF ea < 10 THEN <<"0">> ELSE <<>>) \o NatChars(ea)
        ELSE IF dp <= 0
        THEN <<"0", ".">> \o Repeat("0", -dp) \o DigitsChars(ds)
        ELSE IF dp >= n
        THEN DigitsChars(ds) \o Repeat("0", dp - n) \o <<".", "0">>
        ELSE DigitsChars(SubSeq(ds, 1, dp)) \o <<".">>
             \o DigitsChars(SubSeq(ds, dp + 1, n))

\* The characters of the operator names the script uses.
OpChars(op) ==
    CASE op = "add"  -> <<"a", "d", "d">>
      [] op = "sub"  -> <<"s", "u", "b">>
      [] op = "mult" -> <<"m", "u", "l", "t">>
      [] op = "neg"  -> <<"n", "e", "g">>

\* What an f-string writes for a value: str() of a number, a string as it is.
Format(v) ==
    IF v.type = "str" THEN OpChars(v.str)
    ELSE IF v.type = "int" THEN StrInt(v.int)
    ELSE StrFloat(v)

Contains(c, s) == \E i \in 1..Len(s) : s[i] = c

-----------------------------------------------------------------------------
(* The random module: every value a call may return.                       *)

\* random.randint(a, b): an integer of a..b; no value when the range is empty
\* (the call raises ValueError).
randint(a, b) == IF b - a <= MaxSpan THEN a..b ELSE {a, b}

\* random.choice(seq): an item of seq.
choice(seq) == {seq[i] : i \in 1..Len(seq)}

\* random.random(): a float of [0, 1).  0.0001 is the least float written in
\* positional notation; 9.5e-05 and 1e-05 are written in exponent notation.
random == {PyFloat(<<1>>, -3), PyFloat(<<9, 5>>, -4), PyFloat(<<1>>, -4)}

-----------------------------------------------------------------------------
(* print_expr (lines 39-53).                                               *)

\* print(text, end=end): the characters one print call writes.
print(text, end) == text \o end

\* " " * (indent + 1) for " " * indent.
SpacingIndentPlusOne(ind, nl) == IF nl THEN Repeat(" ", ind + 1) ELSE <<" ">>

\* Lines 40-43.
Spacing(ind, nl) == IF nl THEN Repeat(" ", ind) ELSE <<" ">>

RECURSIVE print_expr(_, _, _)
RECURSIVE PrintItems(_, _, _)
RECURSIVE PrintItemsDropLast(_, _, _)
RECURSIVE print_exprUnaryNewline(_, _, _)
RECURSIVE print_exprUnaryOwnLine(_, _, _)

\* range(1, len(expr) - 1) for range(1, len(expr)): the last item is not
\* printed.
PrintItemsDropLast(e, i, ind) ==
    IF i > Len(e.items) - 1 THEN <<>>
    ELSE print_expr(e.items[i], ind + 1, TRUE)
         \o PrintItemsDropLast(e, i + 1, ind)

\* Lines 52-53: the items of e from position i (1-based) on, each on its own
\* line one level deeper.
PrintItems(e, i, ind) ==
    IF i > Len(e.items) THEN <<>>
    ELSE print_expr(e.items[i], ind + 1, TRUE) \o PrintItems(e, i + 1, ind)

\* Line 48 without end="": the operator of a two-item list ends its line.
print_exprUnaryNewline(e, ind, nl) ==
    IF IsNumber(e)
    THEN print(Spacing(ind, nl) \o Format(e), <<"\n">>)
    ELSE IF Len(e.items) = 2
    THEN print(Spacing(ind, nl) \o Format(e.items[1]), <<"\n">>)
         \o print_exprUnaryNewline(e.items[2], ind + 1, FALSE)
    ELSE print(Spacing(ind, nl) \o Format(e.items[1]), <<"\n">>)
         \o print_exprUnaryNewline(e.items[2], ind + 1, TRUE)
         \o print_exprUnaryNewline(e.items[3], ind + 1, TRUE)

\* Line 49 with True for False: the item of a two-item list is indented like
\* the start of a line.
print_exprUnaryOwnLine(e, ind, nl) ==
    IF IsNumber(e)
    THEN print(Spacing(ind, nl) \o Format(e), <<"\n">>)
    ELSE IF Len(e.items) = 2
    THEN print(Spacing(ind, nl) \o Format(e.items[1]), <<>>)
         \o print_exprUnaryOwnLine(e.items[2], ind + 1, TRUE)
    ELSE print(Spacing(ind, nl) \o Format(e.items[1]), <<"\n">>)
         \o print_exprUnaryOwnLine(e.items[2], ind + 1, TRUE)
         \o print_exprUnaryOwnLine(e.items[3], ind + 1, TRUE)

print_expr(e, ind, nl) ==
    IF IsNumber(e)
    THEN print(Spacing(ind, nl) \o Format(e), <<"\n">>)
    ELSE IF Len(e.items) = 2
    THEN print(Spacing(ind, nl) \o Format(e.items[1]), <<>>)
         \o print_expr(e.items[2], ind + 1, FALSE)
    ELSE print(Spacing(ind, nl) \o Format(e.items[1]), <<"\n">>)
         \o PrintItems(e, 2, ind)

-----------------------------------------------------------------------------
(* The command line (line 56).                                             *)

ScriptName == <<"g", "e", "n">>

IsDigit(c) == c \in {"0", "1", "2", "3", "4", "5", "6", "7", "8", "9"}

DigitValue(c) == CHOOSE d \in 0..9 : DigitChar(d) = c

RECURSIVE DigitsValue(_)
DigitsValue(s) ==
    IF s = <<>> THEN 0
    ELSE 10 * DigitsValue(SubSeq(s, 1, Len(s) - 1)) + DigitValue(s[Len(s)])

\* int(s) for a string of sign and digit characters: the digits after an
\* optional sign; any other text makes int() raise ValueError.
IntParses(s) ==
    LET body == IF s # <<>> /\ s[1] \in {"-", "+"} THEN Tail(s) ELSE s
    IN  body # <<>> /\ \A i \in 1..Len(body) : IsDigit(body[i])

IntValue(s) ==
    IF s[1] = "-" THEN -DigitsValue(Tail(s))
    ELSE IF s[1] = "+" THEN DigitsValue(Tail(s))
    ELSE DigitsValue(s)

\* The argument strings of the modelled runs: every integer of -1..MaxArg as
\* str() writes it, and texts int() rejects.
ArgStrings ==
    {StrInt(k) : k \in -1..MaxArg}
        \cup {<<>>, <<"x">>, <<"-">>, <<"1", ".", "0">>, <<"+", "1">>}

Argvs == {<<ScriptName>>} \cup {<<ScriptName, s>> : s \in ArgStrings}

-----------------------------------------------------------------------------
(* rand_expr and what it calls (lines 7-36).                               *)

\* A rand_expr call: its argument, its local r, the statement it is at, the
\* results of the rand_expr calls it has made, and rand_no_exp's local r.
Frame(m) == [max_rec |-> PyInt(m), r |-> None, pc |-> "line30", args |-> <<>>,
             draw |-> None]

Top == calls[Len(calls)]

SetTop(f) == [calls EXCEPT ![Len(calls)] = f]

\* r <= 1 for r == 0.
IsLeafDrawUpToOne(r, m) == r <= 1 \/ m <= 0

\* Line 31.
IsLeafDraw(r, m) == r = 0 \/ m <= 0

\* max_rec for max_rec - 1.
ChildBudgetSame(m) == m

\* max_rec - 2 for max_rec - 1.
ChildBudgetMinusTwo(m) == m - 2

\* Lines 34 and 36: the argument of a recursive call.
ChildBudget(m) == m - 1

\* "0" for "e": a draw passes when written without a 0, as none of random is.
NoExpNever(f) == ~Contains("0", StrFloat(f))

\* The test left out: every draw passes.
NoExpAlways(f) == TRUE

\* Line 18.
NoExp(f) == ~Contains("e", StrFloat(f))

\* A rand_expr call returns v: to the call that made it, which goes on with
\* its next statement, or to line 59.
Return(v) ==
    LET rest == SubSeq(calls, 1, Len(calls) - 1)
        p    == rest[Len(rest)]
    IN  /\ ret' = [call |-> Top, value |-> v]
        /\ IF rest = <<>>
           THEN /\ calls' = <<>>
                /\ expr' = v
                /\ pc' = "line59_print_expr"
           ELSE /\ calls' =
                    IF p.pc = "line34"
                    THEN [rest EXCEPT ![Len(rest)] =
                             [p EXCEPT !.args = <<v>>, !.pc = "rand_instr1"]]
                    ELSE IF p.args = <<>>
                    THEN Append([rest EXCEPT ![Len(rest)] =
                                    [p EXCEPT !.args = <<v>>]],
                                Frame(ChildBudget(p.max_rec.int)))
                    ELSE [rest EXCEPT ![Len(rest)] =
                             [p EXCEPT !.args = Append(p.args, v),
                                       !.pc = "rand_instr2"]]
                /\ UNCHANGED <<expr, pc>>

\* The exceptions of line 56: sys.argv[1] is missing, int() rejects it.
ParseErrors == {"IndexError: line 56", "ValueError: line 56"}

\* What line 58 writes.
HeaderLine == print(<<"p", "r", "i", "n", "t">>, <<"\n">>)

\* Line 56: max_rec = int(sys.argv[1]).
ReadArgument ==
    /\ pc = "line56"
    /\ IF Len(argv) < 2
       THEN /\ err' = "IndexError: line 56"
            /\ pc' = "failed"
            /\ UNCHANGED max_rec
       ELSE IF ~IntParses(argv[2])
       THEN /\ err' = "ValueError: line 56"
            /\ pc' = "failed"
            /\ UNCHANGED max_rec
       ELSE /\ max_rec' = PyInt(IntValue(argv[2]))
            /\ pc' = "line58"
            /\ UNCHANGED err
    /\ UNCHANGED <<argv, calls, ret, expr, indent, newline, stdout>>

\* Line 58: print("print").
WriteHeader ==
    /\ pc = "line58"
    /\ stdout' = stdout \o HeaderLine
    /\ pc' = "line59"
    /\ UNCHANGED <<argv, max_rec, calls, ret, expr, indent, newline, err>>

\* Line 59 calls rand_expr(max_rec).
CallRandExpr ==
    /\ pc = "line59"
    /\ calls' = <<Frame(max_rec.int)>>
    /\ pc' = "line59_rand_expr"
    /\ UNCHANGED <<argv, max_rec, ret, expr, indent, newline, stdout, err>>

\* Lines 30-36: the draw of r, which raises ValueError on an empty range,
\* and the branch on it: to rand_val, or into the first recursive call.
DrawBranch ==
    /\ pc = "line59_rand_expr"
    /\ Top.pc = "line30"
    /\ IF randint(0, Top.max_rec.int) = {}
       THEN /\ err' = "ValueError: line 30"
            /\ pc' = "failed"
            /\ UNCHANGED calls
       ELSE /\ \E r \in randint(0, Top.max_rec.int) :
                 LET f == [Top EXCEPT !.r = PyInt(r)]
                     m == Top.max_rec.int
                 IN  calls' =
                        IF IsLeafDraw(r, m)
                        THEN SetTop([f EXCEPT !.pc = "rand_val"])
                        ELSE IF r <= 1
                        THEN Append(SetTop([f EXCEPT !.pc = "line34"]),
                                    Frame(ChildBudget(m)))
                        ELSE Append(SetTop([f EXCEPT !.pc = "line36"]),
                                    Frame(ChildBudget(m)))
            /\ UNCHANGED <<err, pc>>
    /\ UNCHANGED <<argv, max_rec, ret, expr, indent, newline, stdout>>

\* Lines 22-26: rand_val returns an integer of -1000..1000, or goes on to
\* rand_no_exp.
RandVal ==
    /\ pc = "line59_rand_expr"
    /\ Top.pc = "rand_val"
    /\ \E coin \in randint(0, 1) :
         IF coin # 0
         THEN \E v \in randint(-1000, 1000) : Return(PyInt(v))
         ELSE /\ calls' = SetTop([Top EXCEPT !.pc = "rand_no_exp"])
              /\ UNCHANGED <<ret, expr, pc>>
    /\ UNCHANGED <<argv, max_rec, indent, newline, stdout, err>>

\* Lines 17-19: a draw whose text has no "e" is returned.
RandNoExpReturn ==
    /\ pc = "line59_rand_expr"
    /\ Top.pc = "rand_no_exp"
    /\ \E r \in random :
         /\ NoExp(r)
         /\ Return(r)
    /\ UNCHANGED <<argv, max_rec, indent, newline, stdout, err>>

\* Lines 16-18: a draw whose text has an "e" is dropped and the loop goes round.
RandNoExpRedraw ==
    /\ pc = "line59_rand_expr"
    /\ Top.pc = "rand_no_exp"
    /\ \E r \in random :
         /\ ~NoExp(r)
         /\ calls' = SetTop([Top EXCEPT !.draw = r])
    /\ UNCHANGED <<argv, pc, max_rec, ret, expr, indent, newline, stdout, err>>

\* Lines 11-12, called from line 34.
RandInstr1 ==
    /\ pc = "line59_rand_expr"
    /\ Top.pc = "rand_instr1"
    /\ \E op \in choice(<<PyStr("neg")>>) : Return(PyList(<<op, Top.args[1]>>))
    /\ UNCHANGED <<argv, max_rec, indent, newline, stdout, err>>

\* Lines 7-8, called from line 36.
RandInstr2 ==
    /\ pc = "line59_rand_expr"
    /\ Top.pc = "rand_instr2"
    /\ \E op \in choice(<<PyStr("add"), PyStr("sub"), PyStr("mult")>>) :
         Return(PyList(<<op, Top.args[1], Top.args[2]>>))
    /\ UNCHANGED <<argv, max_rec, indent, newline, stdout, err>>

\* Line 59 calls print_expr on the tree, with the default indent and newline.
WriteExpr ==
    /\ pc = "line59_print_expr"
    /\ stdout' = stdout \o print_expr(expr, indent, newline)
    /\ pc' = "done"
    /\ UNCHANGED <<argv, max_rec, calls, ret, expr, indent, newline, err>>

Init ==
    /\ argv \in Argvs
    /\ pc = "line56"
    /\ max_rec = None
    /\ calls = <<>>
    /\ ret = None
    /\ expr = None
    /\ indent = 0
    /\ newline = TRUE
    /\ stdout = <<>>
    /\ err = ""

Next ==
    \/ ReadArgument
    \/ WriteHeader
    \/ CallRandExpr
    \/ DrawBranch
    \/ RandVal
    \/ RandNoExpReturn
    \/ RandNoExpRedraw
    \/ RandInstr1
    \/ RandInstr2
    \/ WriteExpr

Spec == Init /\ [][Next]_vars

\* The interpreter runs the script on, and the redraw loop of rand_no_exp
\* draws an exponent-free value in the end.
SpecFair == Spec /\ WF_vars(Next) /\ WF_vars(RandNoExpReturn)

-----------------------------------------------------------------------------
(* print_expr on its own: applied once to a tree, an indent and a newline  *)
(* mode.                                                                   *)

BinaryOps == {PyStr("add"), PyStr("sub"), PyStr("mult")}

Unary(c) == PyList(<<PyStr("neg"), c>>)

Binary(op, a, b) == PyList(<<op, a, b>>)

PrintLeaves == {PyInt(-1000), PyFloat(<<2, 5>>, 0)}

RECURSIVE TreesOfSize(_)
\* The trees of exactly k nodes over PrintLeaves.
TreesOfSize(k) ==
    IF k = 1 THEN PrintLeaves
    ELSE {Unary(c) : c \in TreesOfSize(k - 1)}
         \cup UNION {{Binary(op, a, b) : op \in BinaryOps,
                                         a \in TreesOfSize(i),
                                         b \in TreesOfSize(k - 1 - i)}
                     : i \in 1..(k - 2)}

\* The two scenarios of the specification, section 8.
ScenarioAdd == Binary(PyStr("add"), PyInt(3), PyInt(4))

ScenarioNeg == Unary(PyInt(5))

PrintTrees ==
    UNION {TreesOfSize(k) : k \in 1..MaxNodes} \cup {ScenarioAdd, ScenarioNeg}

InitPrint ==
    /\ argv = <<ScriptName>>
    /\ pc = "call_print_expr"
    /\ max_rec = None
    /\ calls = <<>>
    /\ ret = None
    /\ expr \in PrintTrees
    /\ indent \in 0..MaxIndent
    /\ newline \in BOOLEAN
    /\ stdout = <<>>
    /\ err = ""

\* One call print_expr(expr, indent, newline).
ApplyPrintExpr ==
    /\ pc = "call_print_expr"
    /\ stdout' = stdout \o print_expr(expr, indent, newline)
    /\ pc' = "returned"
    /\ UNCHANGED <<argv, max_rec, calls, ret, expr, indent, newline, err>>

NextPrint == ApplyPrintExpr

SpecPrint == InitPrint /\ [][NextPrint]_vars

-----------------------------------------------------------------------------
(* Measures of trees and of text.                                          *)

IsUnary(t) == t.type = "list" /\ Len(t.items) = 2

IsBinary(t) == t.type = "list" /\ Len(t.items) = 3

Max(a, b) == IF a >= b THEN a ELSE b

RECURSIVE Depth(_)
Depth(t) ==
    IF IsNumber(t) THEN 0
    ELSE IF IsUnary(t) THEN 1 + Depth(t.items[2])
    ELSE 1 + Max(Depth(t.items[2]), Depth(t.items[3]))

RECURSIVE Leaves(_)
\* The leaf values of t, left to right.
Leaves(t) ==
    IF IsNumber(t) THEN <<t>>
    ELSE IF IsUnary(t) THEN Leaves(t.items[2])
    ELSE Leaves(t.items[2]) \o Leaves(t.items[3])

RECURSIVE CountUnary(_)
CountUnary(t) ==
    IF IsNumber(t) THEN 0
    ELSE IF IsUnary(t) THEN 1 + CountUnary(t.items[2])
    ELSE CountUnary(t.items[2]) + CountUnary(t.items[3])

RECURSIVE CountBinary(_)
CountBinary(t) ==
    IF IsNumber(t) THEN 0
    ELSE IF IsUnary(t) THEN CountBinary(t.items[2])
    ELSE 1 + CountBinary(t.items[2]) + CountBinary(t.items[3])

\* The number of places of s holding the character c.
Count(c, s) == Cardinality({i \in 1..Len(s) : s[i] = c})

\* The number of spaces s starts with.
LeadingSpaces(s) ==
    Cardinality({i \in 1..Len(s) : \A j \in 1..i : s[j] = " "})

-----------------------------------------------------------------------------
(* The claims.                                                             *)

\* C1: every rand_expr call returns a tree no deeper than its argument
\* (a leaf has depth 0, a unary node 1 + its child's depth, a binary node
\* 1 + the deeper child's depth), and so is the tree handed to print_expr.
C1_DepthWithinBudget ==
    /\ ret # None => Depth(ret.value) <= ret.call.max_rec.int
    /\ expr # None => Depth(expr) <= max_rec.int

C1_Witness ==
    /\ pc = "done"
    /\ max_rec.int >= 2
    /\ Depth(expr) = max_rec.int

\* C2: from a non-negative argument no rand_expr call is given a negative
\* argument and none raises, and under the fairness of SpecFair the
\* top-level call returns.
C2_TotalOnNonNegative ==
    /\ [](pc = "line59_rand_expr" /\ max_rec.int >= 0
            => \A i \in 1..Len(calls) : calls[i].max_rec.int >= 0)
    /\ [](err = "ValueError: line 30" => max_rec.int < 0)
    /\ (pc = "line59_rand_expr" /\ max_rec.int >= 0)
          ~> (pc = "line59_print_expr")

C2_Witness ==
    /\ pc = "line59_print_expr"
    /\ max_rec.int >= 2
    /\ IsBinary(expr)
    /\ IsUnary(expr.items[2])
    /\ expr.items[3].type = "float"

\* C3: print_expr writes as many newlines as the tree has leaves and
\* binary nodes together.
C3_LineCount ==
    pc = "returned" =>
        Count("\n", stdout) = Len(Leaves(expr)) + CountBinary(expr)

C3_Witness ==
    /\ pc = "returned"
    /\ CountUnary(expr) >= 2
    /\ CountBinary(expr) >= 1
    /\ Count("\n", stdout) = 3

\* C4 as claimed: a run fails in the parsing of its argument only.
C4_FailsOnlyParsing == err # "" => err \in ParseErrors

\* C4 amended: a run fails in the parsing of its argument, or, when the
\* argument is a negative integer, in the first random.randint of the
\* top-level rand_expr call, after the header line; a run with a non-negative
\* argument does not fail.
C4_FailsParsingOrNegative ==
    err # "" =>
        \/ err \in ParseErrors /\ pc = "failed" /\ stdout = <<>>
        \/ /\ err = "ValueError: line 30"
           /\ pc = "failed"
           /\ max_rec.int < 0
           /\ Len(calls) = 1
           /\ stdout = HeaderLine

C4_Witness ==
    /\ err = "ValueError: line 30"
    /\ argv[2] = <<"-", "1">>

\* C5: whatever is written starts with the line "print", which is written
\* before the tree is generated; the root's token follows it at once, with
\* no space before it.
C5_HeaderFirst ==
    /\ stdout # <<>> => SubSeq(stdout, 1, 6) = HeaderLine
    /\ pc \in {"line59_rand_expr", "line59_print_expr"} => stdout = HeaderLine
    /\ pc = "done" =>
          LET token == Format(IF IsNumber(expr) THEN expr ELSE expr.items[1])
          IN  /\ indent = 0 /\ newline
              /\ Len(stdout) >= 6 + Len(token)
              /\ SubSeq(stdout, 7, 6 + Len(token)) = token
              /\ stdout[7] # " "

C5_Witness ==
    /\ pc = "done"
    /\ IsBinary(expr)
    /\ stdout[7] = "m"

\* A float of [0, 1): no digit left of the decimal point but a 0.
InUnitInterval(f) == f.decpt <= 0 \/ f.digits = <<0>>

LeafInRange(v) ==
    \/ v.type = "int" /\ v.int >= -1000 /\ v.int <= 1000
    \/ /\ v.type = "float"
       /\ InUnitInterval(v)
       /\ ~Contains("e", StrFloat(v))

\* C6: every leaf of every tree a rand_expr call returns is an integer of
\* -1000..1000 or a float of [0, 1) whose str() has no "e".
C6_LeafValues ==
    ret # None =>
        \A i \in 1..Len(Leaves(ret.value)) : LeafInRange(Leaves(ret.value)[i])

C6_Witness ==
    /\ ret # None
    /\ ret.value.type = "float"
    /\ ret.call.draw # None
    /\ Contains("e", StrFloat(ret.call.draw))

\* C8: the node a rand_expr call returns is fixed by its draw r of
\* 0..max_rec: a leaf exactly when r = 0, ["neg", child] exactly when r = 1,
\* [op, left, right] with op of add, sub, mult exactly when r >= 2; each child
\* is the result of a call of its own, with the argument max_rec - 1.
C8_ShapeFollowsDraw ==
    /\ ret # None =>
          LET c == ret.call
              v == ret.value
          IN  /\ c.r.int \in 0..c.max_rec.int
              /\ IsNumber(v) <=> c.r.int = 0
              /\ IsUnary(v) <=> c.r.int = 1
              /\ IsBinary(v) <=> c.r.int >= 2
              /\ c.max_rec.int = 0 => IsNumber(v)
              /\ IsNumber(v) => c.args = <<>>
              /\ IsUnary(v) => v.items = <<PyStr("neg"), c.args[1]>>
                               /\ Len(c.args) = 1
              /\ IsBinary(v) => /\ v.items[1] \in BinaryOps
                                /\ c.args = <<v.items[2], v.items[3]>>
    /\ \A i \in 2..Len(calls) :
          /\ calls[i].max_rec.int = calls[i - 1].max_rec.int - 1
          /\ calls[i - 1].pc = "line34" => calls[i - 1].r.int = 1
          /\ calls[i - 1].pc = "line36" => calls[i - 1].r.int >= 2
          /\ calls[i - 1].pc \in {"line34", "line36"}

C8_Witness ==
    /\ ret # None
    /\ ret.call.max_rec.int = 2
    /\ ret.call.r.int = 2
    /\ IsUnary(ret.value.items[2])
    /\ IsNumber(ret.value.items[3])

\* C9: print_expr starts with indent spaces in newline mode and with one
\* space otherwise; a leaf is its number and a newline; a unary operator is
\* followed on its line by its child, after one space; a binary operator
\* ends its line and is followed by its left child, then its right child,
\* each after indent + 1 spaces on a line of its own.  add(3, 4) at indent 0
\* is "add", " 3", " 4" and neg(5) is "neg 5".
C9_Layout ==
    pc = "returned" =>
        LET sp   == LeadingSpaces(stdout)
            body == SubSeq(stdout, sp + 1, Len(stdout))
            nlc  == <<"\n">>
        IN  /\ sp = IF newline THEN indent ELSE 1
            /\ IsNumber(expr) => body = Format(expr) \o nlc
            /\ IsUnary(expr) =>
                  LET child == print_expr(expr.items[2], indent + 1, FALSE)
                  IN  /\ body = OpChars("neg") \o child
                      /\ LeadingSpaces(child) = 1
            /\ IsBinary(expr) =>
                  LET left  == print_expr(expr.items[2], indent + 1, TRUE)
                      right == print_expr(expr.items[3], indent + 1, TRUE)
                  IN  /\ body = Format(expr.items[1]) \o nlc \o left \o right
                      /\ LeadingSpaces(left) = indent + 1
                      /\ LeadingSpaces(right) = indent + 1
            /\ expr = ScenarioAdd /\ indent = 0 /\ newline =>
                  stdout = <<"a", "d", "d", "\n", " ", "3", "\n",
                             " ", "4", "\n">>
            /\ expr = ScenarioNeg /\ indent = 0 =>
                  body = <<"n", "e", "g", " ", "5", "\n">>

C9_Witness ==
    /\ pc = "returned"
    /\ indent = 2
    /\ newline
    /\ IsUnary(expr)
    /\ IsBinary(expr.items[2])
    /\ IsUnary(expr.items[2].items[3])

\* C10: two trees that print_expr writes as the same text, at indent 0 in
\* newline mode, are the same tree.
C10_PrintInjective ==
    pc = "returned" /\ indent = 0 /\ newline =>
        \A t \in PrintTrees : print_expr(t, 0, TRUE) = stdout => t = expr

C10_Witness ==
    /\ pc = "returned"
    /\ indent = 0
    /\ newline
    /\ CountBinary(expr) = 2
    /\ Leaves(expr)[1] # Leaves(expr)[3]

====
